---- MODULE Spec2Model ----
(***************************************************************************)
(* Model of the detailed-explanation plugin (src/plugin.py): the segmenter *)
(* _split_content_into_segments with its three algorithms and the count    *)
(* normalisation, and the delivery loop _send_segments.                    *)
(*                                                                         *)
(* A string is a sequence of one-character strings.  An operation that can *)
(* raise returns a record [err, segs]: err = TRUE stands for the raised    *)
(* exception, which propagates through its callers up to the handler.      *)
(***************************************************************************)
EXTENDS Integers, Sequences, FiniteSets

\* ---------------------------------------------------------------- bounds
MaxLen == 4
MaxTarget == 3
MaxSegs == 3
MaxSend == 3

\* ------------------------------------------------------------- alphabet
NL == "\n"
SP == " "
Whitespace == {SP, NL}
Alphabet == {"a", ".", SP, NL}
SeparatorSets == {{}, {"."}, {".", SP}}
Algorithms == {"smart", "sentence", "length"}

RECURSIVE StringsOfLen(_)
StringsOfLen(n) ==
    IF n = 0 THEN {<<>>}
    ELSE {Append(s, c) : s \in StringsOfLen(n - 1), c \in Alphabet}

Contents == UNION {StringsOfLen(n) : n \in 0..MaxLen}

Configs ==
    {c \in [segment_length : 0..MaxTarget,
            min_segments : 1..MaxSegs,
            max_segments : 1..MaxSegs,
            algorithm : Algorithms,
            sentence_separators : SeparatorSets] :
        c.min_segments <= c.max_segments}

\* ------------------------------------------------------ string helpers
Ok(segs) == [err |-> FALSE, segs |-> segs]
Raised == [err |-> TRUE, segs |-> <<>>]

\* "".join(parts)
RECURSIVE join(_)
join(parts) ==
    IF parts = <<>> THEN <<>> ELSE Head(parts) \o join(Tail(parts))

IsBlank(s) == \A k \in 1..Len(s) : s[k] \in Whitespace

\* str.strip()
strip(s) ==
    IF IsBlank(s) THEN <<>>
    ELSE LET first == CHOOSE k \in 1..Len(s) :
                          /\ s[k] \notin Whitespace
                          /\ \A j \in 1..(k - 1) : s[j] \in Whitespace
             last == CHOOSE k \in 1..Len(s) :
                          /\ s[k] \notin Whitespace
                          /\ \A j \in (k + 1)..Len(s) : s[j] \in Whitespace
         IN SubSeq(s, first, last)

\* End of the match of \n\s*\n that starts at position i, or 0 when the
\* pattern does not match there: \s* is greedy, so the match runs to the last
\* newline of the whitespace run that follows s[i].
paragraph_match_end(s, i) ==
    IF s[i] # NL THEN 0
    ELSE LET ends == {k \in (i + 1)..Len(s) :
                         /\ s[k] = NL
                         /\ \A j \in (i + 1)..k : s[j] \in Whitespace}
         IN IF ends = {} THEN 0
            ELSE CHOOSE k \in ends : \A j \in ends : j <= k

\* re.split(r'\n\s*\n', content), scanning from position i with the current
\* piece starting at position start
RECURSIVE split_paragraphs_from(_, _, _)
split_paragraphs_from(s, start, i) ==
    IF i > Len(s) THEN <<SubSeq(s, start, Len(s))>>
    ELSE LET e == paragraph_match_end(s, i)
         IN IF e > 0
            THEN <<SubSeq(s, start, i - 1)>> \o split_paragraphs_from(s, e + 1, e + 1)
            ELSE split_paragraphs_from(s, start, i + 1)

split_paragraphs(s) == split_paragraphs_from(s, 1, 1)

\* re.split('([...])', text) for a non-empty separator class: the pieces
\* between separators alternate with the captured separators
RECURSIVE split_keep_from(_, _, _, _)
split_keep_from(s, separators, start, i) ==
    IF i > Len(s) THEN <<SubSeq(s, start, Len(s))>>
    ELSE IF s[i] \in separators
         THEN <<SubSeq(s, start, i - 1), <<s[i]>>>>
                  \o split_keep_from(s, separators, i + 1, i + 1)
         ELSE split_keep_from(s, separators, start, i + 1)

split_keep(s, separators) == split_keep_from(s, separators, 1, 1)

\* ------------------------------------------------- _split_by_sentences
\* the loop  for i in range(0, len(parts) - 1, 2)  from index i (0-based)
RECURSIVE sentences_loop(_, _, _)
sentences_loop(parts, i, sentences) ==
    IF i >= Len(parts) - 1 THEN sentences
    ELSE LET sentence == IF i + 1 < Len(parts)
                         THEN parts[i + 1] \o parts[i + 2]
                         ELSE parts[i + 1]
         IN sentences_loop(parts, i + 2,
                IF strip(sentence) # <<>> THEN Append(sentences, sentence)
                ELSE sentences)

\* variant: the blank-sentence filter (lines 297 and 301) left out
split_by_sentences_keep_blank(text, separators) ==
    IF separators = {} THEN Raised
    ELSE LET parts == split_keep(text, separators)
         IN Ok([k \in 1..((Len(parts) + 1) \div 2) |->
                   IF 2 * k <= Len(parts) THEN parts[2 * k - 1] \o parts[2 * k]
                   ELSE parts[2 * k - 1]])

split_by_sentences(text, separators) ==
    IF separators = {} THEN Raised
    ELSE LET parts == split_keep(text, separators)
             sentences == sentences_loop(parts, 0, <<>>)
         IN Ok(IF Len(parts) % 2 = 1 /\ strip(parts[Len(parts)]) # <<>>
               THEN Append(sentences, parts[Len(parts)])
               ELSE sentences)

\* variant: the fit test is < instead of <= (a sentence that fills the
\* segment exactly is deferred to the next one)
RECURSIVE pack_sentences_strict(_, _, _)
pack_sentences_strict(sentences, target_length, st) ==
    IF sentences = <<>> THEN st
    ELSE LET sentence == Head(sentences)
         IN pack_sentences_strict(Tail(sentences), target_length,
                IF Len(st.current \o sentence) < target_length
                THEN [st EXCEPT !.current = st.current \o sentence]
                ELSE [segments |-> IF st.current # <<>>
                                   THEN Append(st.segments, st.current)
                                   ELSE st.segments,
                      current |-> sentence])

\* the greedy sentence loop shared in shape by _sentence_split and the inner
\* loop of _smart_split; st = [segments, current]
RECURSIVE pack_sentences(_, _, _)
pack_sentences(sentences, target_length, st) ==
    IF sentences = <<>> THEN st
    ELSE LET sentence == Head(sentences)
         IN pack_sentences(Tail(sentences), target_length,
                IF Len(st.current \o sentence) <= target_length
                THEN [st EXCEPT !.current = st.current \o sentence]
                ELSE [segments |-> IF st.current # <<>>
                                   THEN Append(st.segments, st.current)
                                   ELSE st.segments,
                      current |-> sentence])

\* ------------------------------------------------------ _sentence_split
\* variant: the final open segment (lines 272-273) is not appended
sentence_split_drops_last(content, target_length, separators) ==
    LET r == split_by_sentences(content, separators)
    IN IF r.err THEN Raised
       ELSE Ok(pack_sentences(r.segs, target_length,
                              [segments |-> <<>>, current |-> <<>>]).segments)

sentence_split(content, target_length, separators) ==
    LET r == split_by_sentences(content, separators)
    IN IF r.err THEN Raised
       ELSE LET st == pack_sentences(r.segs, target_length,
                                     [segments |-> <<>>, current |-> <<>>])
            IN Ok(IF st.current # <<>> THEN Append(st.segments, st.current)
                  ELSE st.segments)

\* -------------------------------------------------------- _length_split
RECURSIVE length_slices(_, _, _)
length_slices(content, target_length, i) ==
    IF i >= Len(content) THEN <<>>
    ELSE <<SubSeq(content, i + 1,
                  IF i + target_length < Len(content) THEN i + target_length
                  ELSE Len(content))>>
             \o length_slices(content, target_length, i + target_length)

\* variant: the slice is one character too wide (content[i:i + target_length + 1])
length_split_overlap(content, target_length) ==
    IF target_length = 0 THEN Raised
    ELSE Ok([k \in 1..Len(length_slices(content, target_length, 0)) |->
                SubSeq(content, (k - 1) * target_length + 1,
                       IF k * target_length + 1 < Len(content)
                       THEN k * target_length + 1 ELSE Len(content))])

length_split(content, target_length) ==
    IF target_length = 0 THEN Raised
    ELSE Ok(length_slices(content, target_length, 0))

\* --------------------------------------------------------- _smart_split
\* the loop over paragraphs; st = [err, segments, current]
RECURSIVE smart_loop(_, _, _, _)
smart_loop(paragraphs, target_length, separators, st) ==
    IF st.err \/ paragraphs = <<>> THEN st
    ELSE LET paragraph == strip(Head(paragraphs))
             rest == Tail(paragraphs)
         IN IF paragraph = <<>>
            THEN smart_loop(rest, target_length, separators, st)
            ELSE IF Len(st.current \o paragraph) <= target_length
            THEN smart_loop(rest, target_length, separators,
                     [st EXCEPT !.current =
                          IF st.current # <<>>
                          THEN st.current \o <<NL, NL>> \o paragraph
                          ELSE paragraph])
            ELSE LET saved == IF st.current # <<>>
                              THEN Append(st.segments, st.current)
                              ELSE st.segments
                 IN IF Len(paragraph) > target_length
                    THEN LET r == split_by_sentences(paragraph, separators)
                         IN IF r.err
                            THEN [st EXCEPT !.err = TRUE]
                            ELSE LET t == pack_sentences(r.segs, target_length,
                                              [segments |-> saved, current |-> <<>>])
                                 IN smart_loop(rest, target_length, separators,
                                        [err |-> FALSE, segments |-> t.segments,
                                         current |-> t.current])
                    ELSE smart_loop(rest, target_length, separators,
                             [err |-> FALSE, segments |-> saved,
                              current |-> paragraph])

smart_split(content, target_length, separators) ==
    LET paragraphs == split_paragraphs(content)
    IN IF paragraphs = <<>> THEN Ok(<<content>>)
       ELSE LET st == smart_loop(paragraphs, target_length, separators,
                          [err |-> FALSE, segments |-> <<>>, current |-> <<>>])
            IN IF st.err THEN Raised
               ELSE Ok(IF st.current # <<>> THEN Append(st.segments, st.current)
                       ELSE st.segments)

\* ----------------------------------------- _split_content_into_segments
\* lines 189-194: the algorithm dispatch
algorithm_split(content, cfg) ==
    IF cfg.algorithm = "smart"
    THEN smart_split(content, cfg.segment_length, cfg.sentence_separators)
    ELSE IF cfg.algorithm = "sentence"
    THEN sentence_split(content, cfg.segment_length, cfg.sentence_separators)
    ELSE length_split(content, cfg.segment_length)

\* lines 197-205: the segment-count normalisation
\* variant: the tail merge keeps max_segments segments before the merged one
normalize_off_by_one(segs, content, min_segments, max_segments) ==
    IF Len(segs) < min_segments THEN <<content>>
    ELSE IF Len(segs) > max_segments
    THEN SubSeq(segs, 1, max_segments)
             \o <<join(SubSeq(segs, max_segments + 1, Len(segs)))>>
    ELSE segs

\* variant: the overflow segments are cut off instead of merged
normalize_truncate(segs, content, min_segments, max_segments) ==
    IF Len(segs) < min_segments THEN <<content>>
    ELSE IF Len(segs) > max_segments THEN SubSeq(segs, 1, max_segments)
    ELSE segs

normalize(segs, content, min_segments, max_segments) ==
    IF Len(segs) < min_segments THEN <<content>>
    ELSE IF Len(segs) > max_segments
    THEN SubSeq(segs, 1, max_segments - 1)
             \o <<join(SubSeq(segs, max_segments, Len(segs)))>>
    ELSE segs

\* variant: no try/except around the body, the exception reaches the caller
split_content_into_segments_unhandled(content, cfg) ==
    IF Len(content) <= cfg.segment_length THEN Ok(<<content>>)
    ELSE LET r == algorithm_split(content, cfg)
         IN IF r.err THEN Raised
            ELSE Ok(normalize(r.segs, content, cfg.min_segments, cfg.max_segments))

\* err is what the call raises to its caller, segs what it returns
split_content_into_segments(content, cfg) ==
    IF Len(content) <= cfg.segment_length THEN Ok(<<content>>)
    ELSE LET r == algorithm_split(content, cfg)
         IN IF r.err THEN Ok(<<content>>)
            ELSE Ok(normalize(r.segs, content, cfg.min_segments, cfg.max_segments))

\* which return statement of _split_content_into_segments is taken
split_path(content, cfg) ==
    IF Len(content) <= cfg.segment_length THEN "short"
    ELSE LET r == algorithm_split(content, cfg)
         IN IF r.err THEN "error"
            ELSE IF Len(r.segs) < cfg.min_segments THEN "fallback"
            ELSE IF Len(r.segs) > cfg.max_segments THEN "merge"
            ELSE "asis"

\* ---------------------------------------------------------------- state
VARIABLES
    content,     \* the argument of _split_content_into_segments
    config,      \* what get_config returns for this call
    pc,          \* "start" before the call, "done" after it returns
    raw,         \* the local `segments` after the algorithm (line 194)
    path,        \* the return statement taken
    segments,    \* the returned list
    raised,      \* TRUE when the call raised instead of returning
    sentences,   \* the local `sentences` of _sentence_split (line 260)
    \* _send_segments
    show_progress,  \* get_config("detailed_explanation.show_progress")
    i,              \* the loop index of enumerate(segments), 0-based
    inflight,       \* indices whose send_text call has not returned yet
    sent,           \* the texts handed to send_text, in call order
    events,         \* what happened so far: send / sent / delay, per index
    failed,         \* indices whose send_text call returned False
    error_logged    \* the handler of line 328 ran

split_vars == <<content, config, raw, path, raised, sentences>>
send_vars == <<show_progress, i, inflight, sent, events, failed, error_logged>>
vars == <<content, config, pc, raw, path, segments, raised, sentences,
          show_progress, i, inflight, sent, events, failed, error_logged>>

Init ==
    /\ content \in Contents
    /\ config \in Configs
    /\ pc = "start"
    /\ raw = <<>>
    /\ path = "none"
    /\ segments = <<>>
    /\ raised = FALSE
    /\ sentences = <<>>
    /\ show_progress = TRUE
    /\ i = 0
    /\ inflight = {}
    /\ sent = <<>>
    /\ events = <<>>
    /\ failed = {}
    /\ error_logged = FALSE

Split ==
    /\ pc = "start"
    /\ pc' = "done"
    /\ path' = split_path(content, config)
    /\ raw' = IF path' \in {"short", "error"} THEN <<>>
              ELSE algorithm_split(content, config).segs
    /\ segments' = split_content_into_segments(content, config).segs
    /\ raised' = split_content_into_segments(content, config).err
    /\ sentences' = IF config.algorithm = "sentence" /\ path' \notin {"short", "error"}
                    THEN split_by_sentences(content, config.sentence_separators).segs
                    ELSE <<>>
    /\ UNCHANGED <<content, config>>
    /\ UNCHANGED send_vars

Next == Split

Spec == Init /\ [][Next]_vars

\* ------------------------------------------------ the _sentence_split call
\* line 192: _sentence_split(content, segment_length, max_segments) is called
\* with the sentence algorithm once the short-circuit of line 184 is passed
SentenceInit ==
    /\ content \in Contents
    /\ config \in {c \in Configs : c.algorithm = "sentence"}
    /\ Len(content) > config.segment_length
    /\ pc = "call"
    /\ raw = <<>>
    /\ path = "none"
    /\ segments = <<>>
    /\ raised = FALSE
    /\ sentences = <<>>
    /\ show_progress = TRUE
    /\ i = 0
    /\ inflight = {}
    /\ sent = <<>>
    /\ events = <<>>
    /\ failed = {}
    /\ error_logged = FALSE

\* lines 258-275: sentences is what _split_by_sentences returned, raw what
\* _sentence_split returns, raised whether the tokenizer's exception left it
SentenceSplit ==
    /\ pc = "call"
    /\ pc' = "returned"
    /\ sentences' = split_by_sentences(content, config.sentence_separators).segs
    /\ raw' = sentence_split(content, config.segment_length,
                             config.sentence_separators).segs
    /\ raised' = sentence_split(content, config.segment_length,
                                config.sentence_separators).err
    /\ UNCHANGED <<content, config, path, segments>>
    /\ UNCHANGED send_vars

SentenceNext == SentenceSplit

SentenceSpec == SentenceInit /\ [][SentenceNext]_vars

\* ------------------------------------------------------- _send_segments
SegmentTexts == {<<"a">>, <<".", SP>>}

RECURSIVE SegmentLists(_)
SegmentLists(n) ==
    IF n = 0 THEN {<<>>}
    ELSE {Append(l, t) : l \in SegmentLists(n - 1), t \in SegmentTexts}

\* the defaults of get_config in _split_content_into_segments
DefaultConfig ==
    [segment_length |-> 400, min_segments |-> 1, max_segments |-> 4,
     algorithm |-> "smart", sentence_separators |-> {"."}]

\* lines 314-317
segment_with_progress(k, segment, segs, progress) ==
    IF progress /\ Len(segs) > 1
    THEN [index |-> k + 1, total |-> Len(segs), text |-> segment]
    ELSE [index |-> 0, total |-> 0, text |-> segment]

\* the call _send_segments(segments) with any list of at most MaxSend segments
SendInit ==
    /\ segments \in UNION {SegmentLists(n) : n \in 0..MaxSend}
    /\ show_progress \in BOOLEAN
    /\ content = join(segments)
    /\ config = DefaultConfig
    /\ raw = <<>>
    /\ path = "none"
    /\ raised = FALSE
    /\ sentences = <<>>
    /\ pc = "loop"
    /\ i = 0
    /\ inflight = {}
    /\ sent = <<>>
    /\ events = <<>>
    /\ failed = {}
    /\ error_logged = FALSE

\* line 320: the loop body builds the text and calls send_text
StartSend ==
    /\ pc = "loop"
    /\ i < Len(segments)
    /\ sent' = Append(sent, segment_with_progress(i, segments[i + 1], segments,
                                                   show_progress))
    /\ inflight' = inflight \cup {i}
    /\ events' = Append(events, <<"send", i + 1>>)
    /\ pc' = "sending"
    /\ UNCHANGED <<segments, show_progress, i, failed, error_logged>>
    /\ UNCHANGED split_vars

\* variant: the delay is taken after every segment, the last one included
SendReturnsAlwaysDelay ==
    /\ pc = "sending"
    /\ \E ok \in BOOLEAN :
           /\ inflight' = inflight \ {i}
           /\ failed' = IF ok THEN failed ELSE failed \cup {i}
           /\ events' = Append(events, <<"sent", i + 1>>)
           /\ pc' = "sleeping"
           /\ UNCHANGED i
    /\ UNCHANGED <<segments, show_progress, sent, error_logged>>
    /\ UNCHANGED split_vars

\* lines 320-324: send_text returns (True or False, the value is not looked
\* at); then sleep unless this was the last segment
SendReturns ==
    /\ pc = "sending"
    /\ \E ok \in BOOLEAN :
           /\ inflight' = inflight \ {i}
           /\ failed' = IF ok THEN failed ELSE failed \cup {i}
           /\ events' = Append(events, <<"sent", i + 1>>)
           /\ IF i < Len(segments) - 1
              THEN pc' = "sleeping" /\ UNCHANGED i
              ELSE pc' = "loop" /\ i' = i + 1
    /\ UNCHANGED <<segments, show_progress, sent, error_logged>>
    /\ UNCHANGED split_vars

\* lines 328-329: send_text raises, the handler around the loop logs and the
\* method returns
SendRaises ==
    /\ pc = "sending"
    /\ inflight' = inflight \ {i}
    /\ error_logged' = TRUE
    /\ pc' = "finished"
    /\ UNCHANGED <<segments, show_progress, i, sent, events, failed>>
    /\ UNCHANGED split_vars

\* line 324: asyncio.sleep(send_delay) returns
DelayElapsed ==
    /\ pc = "sleeping"
    /\ events' = Append(events, <<"delay", i + 1>>)
    /\ i' = i + 1
    /\ pc' = "loop"
    /\ UNCHANGED <<segments, show_progress, inflight, sent, failed, error_logged>>
    /\ UNCHANGED split_vars

\* line 326: the loop is over
LoopExit ==
    /\ pc = "loop"
    /\ i >= Len(segments)
    /\ pc' = "finished"
    /\ UNCHANGED <<segments, show_progress, i, inflight, sent, events, failed,
                   error_logged>>
    /\ UNCHANGED split_vars

SendNext == StartSend \/ SendReturns \/ SendRaises \/ DelayElapsed \/ LoopExit

SendSpec == SendInit /\ [][SendNext]_vars

\* ------------------------------------------------------------ properties
Returned == pc = "done"
ValidConfig ==
    /\ config.segment_length >= 1
    /\ 1 <= config.min_segments
    /\ config.min_segments <= config.max_segments

\* s is a subsequence of t
RECURSIVE IsSubsequence(_, _)
IsSubsequence(s, t) ==
    IF s = <<>> THEN TRUE
    ELSE IF t = <<>> THEN FALSE
    ELSE IF Head(s) = Head(t) THEN IsSubsequence(Tail(s), Tail(t))
    ELSE IsSubsequence(s, Tail(t))

IsNonWhitespace(c) == c \notin Whitespace
NonWhitespace(s) == SelectSeq(s, IsNonWhitespace)

\* sep.join(parts)
RECURSIVE join_with(_, _)
join_with(parts, sep) ==
    IF parts = <<>> THEN <<>>
    ELSE IF Len(parts) = 1 THEN Head(parts)
    ELSE Head(parts) \o sep \o join_with(Tail(parts), sep)

Joiner == <<NL, NL>>

\* C1: for every content and every valid config, whichever algorithm and
\* whichever return path, the returned list has at least one and at most
\* max_segments elements.
C1_SegmentCountBounded ==
    (Returned /\ ValidConfig) =>
        /\ Len(segments) >= 1
        /\ Len(segments) <= config.max_segments

C1_Witness ==
    /\ Returned /\ ValidConfig
    /\ path = "merge"
    /\ Len(raw) > config.max_segments
    /\ Len(segments) = config.max_segments
    /\ config.max_segments >= 2

\* C2 as stated: the original content is a subsequence of the concatenated
\* returned segments, no character dropped.  (The inserted joiners are left in
\* the concatenation here, which can only help the content to be found in it;
\* the configs are the valid ones with a non-empty separator set.)
C2_Original_NoCharacterDropped ==
    (Returned /\ ValidConfig /\ config.sentence_separators # {}) =>
        IsSubsequence(content, join(segments))

\* C2 as amended: the concatenated segments carry exactly the non-whitespace
\* characters of the content, in the original order; only whitespace is
\* dropped (by trimming) or added (by the joiners).
C2_NonWhitespacePreserved ==
    Returned => NonWhitespace(join(segments)) = NonWhitespace(content)

C2_Witness ==
    /\ Returned /\ ValidConfig
    /\ config.algorithm \in {"smart", "sentence"}
    /\ path \in {"merge", "asis"}
    /\ Len(raw) >= 2
    /\ ~IsSubsequence(content, join(segments))
    /\ NonWhitespace(content) # <<>>

C5_Original_TailMergeJoiner ==
    (Returned /\ ValidConfig /\ Len(raw) > config.max_segments) =>
        segments[Len(segments)]
            = join_with(SubSeq(raw, config.max_segments, Len(raw)), Joiner)

\* the content is paragraphs separated by one blank line, each paragraph
\* trimmed, non-empty, no longer than segment_length, without a separator
IsParagraphText ==
    LET paragraphs == split_paragraphs(content)
    IN /\ Len(content) > config.segment_length
       /\ Len(paragraphs) >= 2
       /\ content = join_with(paragraphs, Joiner)
       /\ \A k \in 1..Len(paragraphs) :
              /\ paragraphs[k] # <<>>
              /\ strip(paragraphs[k]) = paragraphs[k]
              /\ Len(paragraphs[k]) <= config.segment_length
              /\ \A j \in 1..Len(paragraphs[k]) :
                     paragraphs[k][j] \notin UNION SeparatorSets

\* C6 as stated: on such content the three algorithms return the same list
\* (checked where the separator set is non-empty and max_segments leaves room
\* for one segment per paragraph, as in the tests).
C6_Original_AlgorithmsAgree ==
    (/\ Returned /\ ValidConfig /\ IsParagraphText
     /\ config.sentence_separators # {}
     /\ config.min_segments = 1
     /\ config.max_segments >= Len(split_paragraphs(content))) =>
        \A alg \in Algorithms :
            split_content_into_segments(content,
                [config EXCEPT !.algorithm = alg]).segs = segments

\* C7: the call never raises; when a step of the split fails, it returns
\* the one-element list [content].
C7_FailSoft ==
    Returned =>
        /\ ~raised
        /\ (path = "error" => segments = <<content>>)

C7_Witness ==
    /\ Returned
    /\ path = "error"
    /\ config.algorithm = "smart"
    /\ config.sentence_separators = {}
    /\ Len(content) > 1
    /\ segments = <<content>>

RECURSIVE ExpectedEvents(_, _)
ExpectedEvents(k, n) ==
    IF k > n THEN <<>>
    ELSE <<<<"send", k>>, <<"sent", k>>>>
             \o (IF k < n THEN <<<<"delay", k>>>> ELSE <<>>)
             \o ExpectedEvents(k + 1, n)

IsPrefix(s, t) == Len(s) <= Len(t) /\ SubSeq(t, 1, Len(s)) = s

SendCount(k) == Cardinality({j \in 1..Len(events) : events[j] = <<"send", k>>})

\* C9: the events of a delivery are always an initial part of
\* send(1), sent(1), delay, send(2), ..., send(n), sent(n): a segment is sent
\* only after the one before it was sent and a delay elapsed, at most one send
\* is in flight, no delay follows the last segment, and the segments go out in
\* list order; a delivery in which no send raised runs through the whole
\* sequence.
C9_SendOrder ==
    pc \in {"loop", "sending", "sleeping", "finished"} =>
        /\ IsPrefix(events, ExpectedEvents(1, Len(segments)))
        /\ Cardinality(inflight) <= 1
        /\ \A k \in 1..Len(sent) : sent[k].text = segments[k]
        /\ (pc = "finished" /\ ~error_logged)
               => events = ExpectedEvents(1, Len(segments))

C9_Witness ==
    /\ pc = "finished"
    /\ ~error_logged
    /\ failed = {1}
    /\ Len(segments) = 3
    /\ events = ExpectedEvents(1, 3)
    /\ Len(sent) = 3

\* C10 as stated: a send that fails, by reporting failure or by raising, does
\* not abort the delivery: when _send_segments returns, every segment has been
\* attempted exactly once.
C10_Original_DeliveryContinues ==
    pc = "finished" => \A k \in 1..Len(segments) : SendCount(k) = 1

\* the _sentence_split call returned normally
SentencesReturned == pc = "returned" /\ ~raised

\* the part of the text after its last separator
TrailingFragment(text, separators) ==
    LET parts == split_keep(text, separators) IN parts[Len(parts)]

\* C11 as stated: each separator sits at the end of the token it terminates,
\* no token is a separator character alone, and a non-blank trailing fragment
\* without a separator is the final token.
C11_Original_SeparatorsAttached ==
    (SentencesReturned /\ ValidConfig) =>
        /\ \A k \in 1..Len(sentences) :
               /\ \A j \in 1..(Len(sentences[k]) - 1) :
                      sentences[k][j] \notin config.sentence_separators
               /\ ~(/\ Len(sentences[k]) = 1
                    /\ sentences[k][1] \in config.sentence_separators)
        /\ ~IsBlank(TrailingFragment(content, config.sentence_separators))
               => /\ sentences # <<>>
                  /\ sentences[Len(sentences)]
                         = TrailingFragment(content, config.sentence_separators)

\* the number of leading sentences that concatenate to seg, 0 when none do
LeadingCount(seg, sents) ==
    LET fits == {n \in 1..Len(sents) : join(SubSeq(sents, 1, n)) = seg}
    IN IF fits = {} THEN 0 ELSE CHOOSE n \in fits : \A m \in fits : n <= m

\* how many consecutive sentences make up each segment; a 0 marks a segment
\* that is no concatenation of the next sentences, or sentences left over
RECURSIVE GroupSizes(_, _)
GroupSizes(segs, sents) ==
    IF segs = <<>> THEN (IF sents = <<>> THEN <<>> ELSE <<0>>)
    ELSE LET n == LeadingCount(Head(segs), sents)
         IN IF n = 0 THEN <<0>>
            ELSE <<n>> \o GroupSizes(Tail(segs), SubSeq(sents, n + 1, Len(sents)))

\* the index in sents of the first sentence of segment k
FirstSentenceOf(k, sizes) ==
    LET RECURSIVE before(_)
        before(m) == IF m = 0 THEN 0 ELSE sizes[m] + before(m - 1)
    IN before(k - 1) + 1

====
